---- MODULE Spec2Model ----
(***************************************************************************)
(* A model of Telpenarmo/webserver.                                        *)
(*                                                                         *)
(* Part I   the filesystem and the static file server (static_server.rs,   *)
(*          http.rs, utils.rs): request path -> Response.                  *)
(* Part II  the process of main.rs: one listener thread per host, the      *)
(*          connection handler run by it, the main thread joining them.    *)
(* Part III one call of read_request of reader.rs, read by read and parse  *)
(*          attempt by parse attempt, with the time that passes.           *)
(* Part IV  one call of Response::render on a response the handlers build. *)
(*                                                                         *)
(* A path is the sequence of its components below "/".  A request path is  *)
(* the request-target split at every "/": "/sub/x.txt" is                  *)
(* <<"", "sub", "x.txt">>, "//etc/x.txt" is <<"", "", "etc", "x.txt">> and *)
(* "/sub/" is <<"", "sub", "">>.                                           *)
(***************************************************************************)
EXTENDS Integers, Sequences, FiniteSets, TLC

VARIABLES
    fs,         \* the filesystem
    served_request,    \* the request the static server is given
    served_response,   \* its response to it, once served
    proc,       \* "running", "killed" by a signal, or "panicked" in main
    listener,   \* per host, where its listener thread is
    cause,      \* per host, the call whose panic ended the listener thread
    backlog,    \* per host, the connections established and not yet accepted
    conn,       \* per host, the connection its listener thread is handling
    reader,     \* one call of reader::read_request
    wire        \* one call of Response::render

resolverVars == <<fs, served_request, served_response>>
serverVars == <<proc, listener, cause, backlog, conn>>
vars == <<fs, served_request, served_response, proc, listener, cause, backlog, conn, reader, wire>>

\* ---------------------------------------------------------------- bounds
\* Longest request path, in segments after the leading "/".
MaxSegs == 3
\* The port the hosts are served under (Config.port has no default).
Port == 8080
\* Size in bytes of every regular file of the modelled filesystem.
FileLen == 5

\* ------------------------------------------------------------ filesystem
NonUtf8 == "\\xFF"

\* The segments request paths are built from.
Segs == {"", "..", "sub", "out", "etc", "x.txt"}

RECURSIVE SeqsUpTo(_, _)
SeqsUpTo(S, n) ==
    IF n = 0 THEN {<<>>}
    ELSE LET shorter == SeqsUpTo(S, n - 1)
         IN  shorter \cup {Append(s, x) : s \in {t \in shorter : Len(t) = n - 1}, x \in S}

\* Request-targets: they start with "/", so the first segment is empty.
RequestPaths == {<<"">> \o s : s \in SeqsUpTo(Segs, MaxSegs) \ {<<>>}}

Dir(perm) == [kind |-> "dir", target |-> <<>>, perm |-> perm, len |-> 0]
RegularFile(perm) == [kind |-> "file", target |-> <<>>, perm |-> perm, len |-> FileLen]
Symlink(target) == [kind |-> "link", target |-> target, perm |-> TRUE, len |-> 0]

\* Config.directory, the content root, and the directory of the host "a".
ConfigDirectory == <<"srv">>
ContentDir == <<"srv", "a">>

\* The error pages load_error may look for.
ErrorCodes == {400, 403, 404}
ErrorPageName(code) == ToString(code) \o ".html"

\* What the model varies in the filesystem: the symlink srv/a/out, the error
\* pages of the host and of the content root, and one locked entry.
LinkTargets == {<<"etc">>, <<"etc", "x.txt">>, <<"srv", "a", "sub">>, <<"srv", "a", NonUtf8>>}
LinkOptions == {<<"absent">>} \cup {<<"to", t>> : t \in LinkTargets}
LocalPageOptions == {"absent", "file", "unreadable", "linkout"}
GlobalPageOptions == {"absent", "file"}
LockOptions == {"none", "dir", "file"}

PageNode(option) ==
    CASE option = "file" -> RegularFile(TRUE)
      [] option = "unreadable" -> RegularFile(FALSE)
      [] option = "linkout" -> Symlink(<<"etc", "x.txt">>)

PagePaths(dir) == {Append(dir, ErrorPageName(c)) : c \in ErrorCodes}

MakeFs(link, localPage, globalPage, lock) ==
    LET fixed == {<<>>, <<"srv">>, <<"srv", "x.txt">>, ContentDir,
                  <<"srv", "a", "x.txt">>, <<"srv", "a", "sub">>,
                  <<"srv", "a", "sub", "x.txt">>, <<"srv", "a", NonUtf8>>,
                  <<"etc">>, <<"etc", "x.txt">>}
        files == {p \in fixed : p # <<>> /\ p[Len(p)] = "x.txt"}
        links == IF link[1] = "to" THEN {<<"srv", "a", "out">>} ELSE {}
        locals == IF localPage = "absent" THEN {} ELSE PagePaths(ContentDir)
        globals == IF globalPage = "absent" THEN {} ELSE PagePaths(ConfigDirectory)
    IN  [p \in fixed \cup links \cup locals \cup globals |->
            IF p \in links THEN Symlink(link[2])
            ELSE IF p \in locals THEN PageNode(localPage)
            ELSE IF p \in globals THEN PageNode(globalPage)
            ELSE IF p \in files
                 THEN RegularFile(~(lock = "file" /\ p = <<"srv", "a", "sub", "x.txt">>))
            ELSE Dir(~(lock = "dir" /\ p = <<"srv", "a", "sub">>))]

Filesystems ==
    {MakeFs(l, lp, gp, k) : l \in LinkOptions, lp \in LocalPageOptions,
                            gp \in GlobalPageOptions, k \in LockOptions}

IsPrefix(base, p) == Len(base) <= Len(p) /\ SubSeq(p, 1, Len(base)) = base

Parent(p) == IF p = <<>> THEN <<>> ELSE SubSeq(p, 1, Len(p) - 1)

Resolved(p) == [ok |-> TRUE, path |-> p, err |-> "none"]
IoError(kind) == [ok |-> FALSE, path |-> <<>>, err |-> kind]

\* The walk of realpath(3): cur is the canonical path reached so far.
RECURSIVE Walk(_, _, _)
Walk(f, cur, rest) ==
    IF rest = <<>> THEN Resolved(cur)
    ELSE IF f[cur].kind # "dir" THEN IoError("NotADirectory")
    ELSE LET seg == Head(rest)
             child == Append(cur, seg)
         IN  IF seg = "" THEN Walk(f, cur, Tail(rest))
             ELSE IF seg = ".." THEN Walk(f, Parent(cur), Tail(rest))
             ELSE IF ~f[cur].perm THEN IoError("PermissionDenied")
             ELSE IF child \notin DOMAIN f THEN IoError("NotFound")
             ELSE IF f[child].kind = "link"
                  THEN IF f[child].target \in DOMAIN f
                       THEN Walk(f, f[child].target, Tail(rest))
                       ELSE IoError("NotFound")
             ELSE Walk(f, child, Tail(rest))

\* The path with its ".." and empty components folded away, nothing looked up.
RECURSIVE Lexical(_, _)
Lexical(cur, rest) ==
    IF rest = <<>> THEN cur
    ELSE IF Head(rest) = "" THEN Lexical(cur, Tail(rest))
    ELSE IF Head(rest) = ".." THEN Lexical(Parent(cur), Tail(rest))
    ELSE Lexical(Append(cur, Head(rest)), Tail(rest))

\* Mutant of canonicalize: ".." is folded textually and symlinks are kept.
canonicalize_lexical(f, p) ==
    IF Walk(f, <<>>, p).ok THEN Resolved(Lexical(<<>>, p)) ELSE Walk(f, <<>>, p)

\* std::fs::canonicalize of an absolute path.
canonicalize(f, p) == Walk(f, <<>>, p)

\* The file that open(2) reaches through the path, symlinks followed.
open_target(f, p) == Walk(f, <<>>, p)

\* Path::exists: the path leads to something.
exists(f, p) == Walk(f, <<>>, p).ok

\* Path::is_dir follows symlinks and is false for what does not exist.
is_dir(f, p) == open_target(f, p).ok /\ f[open_target(f, p).path].kind = "dir"

\* The path with the leading "/" of the request-target removed (one character).
remove_first(path) == Tail(path)

\* PathBuf::push: an absolute argument replaces the path, a relative one is
\* appended (an empty one leaves a trailing separator).
is_absolute(segs) == Len(segs) >= 2 /\ segs[1] = ""
push(base, segs) == IF is_absolute(segs) THEN Tail(segs) ELSE base \o segs

get_relative_resource_path(content_dir, request) ==
    push(content_dir, remove_first(request.path))

\* ------------------------------------------------------------ http.rs
\* Status::code.
code(status) ==
    CASE status = "Ok" -> 200
      [] status = "Moved" -> 301
      [] status = "BadRequest" -> 400
      [] status = "Forbidden" -> 403
      [] status = "NotFound" -> 404
      [] status = "MethodNotAllowed" -> 405
      [] status = "RequestTimeout" -> 408
      [] status = "RequestURITooLong" -> 415
      [] status = "InternalServerError" -> 500
      [] status = "NotImplemented" -> 501
      [] status = "HTTPVersionNotSupported" -> 505

\* A body: the bytes of the file at canonical path src, or a text.
NoContent == [kind |-> "none", src |-> <<>>, text |-> "", len |-> 0]
FileContent(f, p) == [kind |-> "file", src |-> p, text |-> "", len |-> f[p].len]
TextContent(t) == [kind |-> "text", src |-> <<>>, text |-> t, len |-> Len(t)]

\* HashMap::insert.
insert(map, name, value) ==
    [k \in DOMAIN map \cup {name} |-> IF k = name THEN value ELSE map[k]]

\* Response::new.
new(status) ==
    [status |-> status,
     headers |-> [k \in {"Server"} |-> "Telpenarmo's webserver"],
     content |-> NoContent]

\* Response::set_header.
set_header(resp, name, value) ==
    [resp EXCEPT !.headers = insert(resp.headers, name, value)]

\* Response::add_content: Content-Length is the length of the new body.
add_content(resp, content) ==
    [resp EXCEPT !.headers = insert(resp.headers, "Content-Length", ToString(content.len)),
                 !.content = content]

\* Response::with_content appends a newline to the text.
with_content(status, text) == add_content(new(status), TextContent(text \o "\n"))

server_error == with_content("InternalServerError", "Internal server error.")

\* Mutant of to_head: the Content-Length header goes with the body.
to_head_without_length(resp) ==
    [status |-> resp.status,
     headers |-> [k \in DOMAIN resp.headers \ {"Content-Length"} |-> resp.headers[k]],
     content |-> NoContent]

\* Response::to_head.
to_head(resp) == [resp EXCEPT !.content = NoContent]

\* slice::join: the elements with the separator between them.
RECURSIVE join(_, _)
join(strs, sep) ==
    IF strs = <<>> THEN ""
    ELSE IF Len(strs) = 1 THEN strs[1]
    ELSE strs[1] \o sep \o join(Tail(strs), sep)

\* The orders in which HashMap::drain may yield the entries with keys S.
RECURSIVE Orders(_)
Orders(S) ==
    IF S = {} THEN {<<>>}
    ELSE UNION {{<<x>> \o o : o \in Orders(S \ {x})} : x \in S}

\* The bytes of a body: the text, or one byte per byte of the file.
RECURSIVE file_bytes(_)
file_bytes(len) == IF len = 0 THEN "" ELSE "x" \o file_bytes(len - 1)
content_bytes(content) ==
    IF content.kind = "file" THEN file_bytes(content.len) ELSE content.text

\* Response::status_line and Response::render_header.
status_line(resp) == "HTTP/1.1 " \o ToString(code(resp.status))
render_header(name, value) == name \o ": " \o value

\* Response::render: the status line, the headers in the order drain yields
\* them, an empty element and the body if there is one, joined by CRLF.
render(resp, order) ==
    join(<<status_line(resp)>>
             \o [i \in 1..Len(order) |-> render_header(order[i], resp.headers[order[i]])]
             \o <<"">>
             \o (IF resp.content.kind # "none" THEN <<content_bytes(resp.content)>> ELSE <<>>),
         "\r\n")

\* ------------------------------------------------------------ utils.rs
\* Path::extension of the last component, for the names of the model.
extension(p) ==
    LET name == IF p = <<>> THEN "" ELSE p[Len(p)]
    IN  IF name = "x.txt" THEN "txt"
        ELSE IF name \in {ErrorPageName(c) : c \in ErrorCodes} THEN "html"
        ELSE ""

match_file_type(p) ==
    CASE extension(p) = "txt" -> "text/plain, charset=utf-8"
      [] extension(p) = "html" -> "text/html, charset=utf-8"
      [] OTHER -> "application/octet-stream"

\* utils::path_if_existing: the path when something exists there.
path_if_existing(f, p) ==
    IF exists(f, p) THEN <<p>> ELSE <<>>

\* Response::load_file.  File::open follows symlinks and fails on a missing or
\* unreadable file; read_to_end fails on a directory.
load_file(f, resp, p) ==
    LET opened == open_target(f, p)
    IN  IF ~opened.ok THEN server_error
        ELSE IF ~f[opened.path].perm THEN server_error
        ELSE IF f[opened.path].kind # "file" THEN server_error
        ELSE set_header(add_content(resp, FileContent(f, opened.path)),
                        "Content-Type", match_file_type(p))

\* ---------------------------------------------------- static_server.rs
\* static_server::Data of the host "a".
Data == [content_dir |-> ContentDir, hostname |-> "a",
         config |-> [directory |-> ConfigDirectory, port |-> Port]]

get_error_page(f, status, data) ==
    LET file_name == ToString(code(status)) \o ".html"
        local_path == path_if_existing(f, Append(data.content_dir, file_name))
    IN  IF local_path # <<>> THEN local_path
        ELSE path_if_existing(f, Append(data.config.directory, file_name))

load_error(f, status, data) ==
    LET error_file == get_error_page(f, status, data)
    IN  IF error_file # <<>> THEN load_file(f, new(status), error_file[1])
        ELSE add_content(new(status), TextContent("Error: " \o ToString(code(status))))

\* Path::to_str: the components joined by "/", when all of them are UTF-8.
is_utf8(p) == \A i \in 1..Len(p) : p[i] # NonUtf8

RECURSIVE to_str(_)
to_str(p) ==
    IF p = <<>> THEN ""
    ELSE IF Len(p) = 1 THEN p[1]
    ELSE p[1] \o "/" \o to_str(Tail(p))

redirect_dir(f, path, data) ==
    IF ~is_utf8(path) THEN load_error(f, "BadRequest", data)
    ELSE set_header(new("Moved"), "Location",
                    "http://" \o data.hostname \o ":" \o ToString(data.config.port)
                        \o to_str(path) \o "/index.html")

\* Path::strip_prefix: by components.
has_prefix(p, base) == IsPrefix(base, p)
strip_prefix(p, base) == SubSeq(p, Len(base) + 1, Len(p))

\* Mutant of handle_get_request: the resolved path is served unchecked.
handle_get_request_unchecked(f, data, request) ==
    LET canon == canonicalize(f, get_relative_resource_path(data.content_dir, request))
    IN  IF ~canon.ok THEN load_error(f, "NotFound", data)
        ELSE load_file(f, new("Ok"), canon.path)

handle_get_request(f, data, request) ==
    LET rel_res_path == get_relative_resource_path(data.content_dir, request)
        canon == canonicalize(f, rel_res_path)
        res_path == canon.path
    IN  IF ~canon.ok
        THEN CASE canon.err = "NotFound" -> load_error(f, "NotFound", data)
               [] canon.err = "PermissionDenied" -> load_error(f, "Forbidden", data)
               [] OTHER -> server_error
        ELSE IF has_prefix(res_path, data.content_dir)
             THEN IF is_dir(f, res_path)
                  THEN redirect_dir(f, strip_prefix(res_path, data.content_dir), data)
                  ELSE load_file(f, new("Ok"), res_path)
             ELSE load_error(f, "Forbidden", data)

handle_head_request(f, data, request) == to_head(handle_get_request(f, data, request))

\* get_handlers: the methods that have a handler.
get_handlers == {"GET", "HEAD"}

\* The orders in which HashMap::keys may yield the handlers' methods.
KeyOrders == {<<"GET", "HEAD">>, <<"HEAD", "GET">>}

\* static_server::handle_request; keys is the iteration order of data.handlers.
static_handle_request(f, data, keys, request) ==
    IF request.method \notin get_handlers
    THEN set_header(new("MethodNotAllowed"), "Allow", join(keys, ", "))
    ELSE IF request.method = "GET" THEN handle_get_request(f, data, request)
    ELSE handle_head_request(f, data, request)

\* ------------------------------------------------- the resolver's state
Methods == {"GET", "HEAD", "POST"}

\* The requests served: GET and HEAD for every path, other methods for "/".
Requests ==
    [method : get_handlers, path : RequestPaths]
        \cup [method : Methods \ get_handlers, path : {<<"", "">>}]

NoResponse == [status |-> "", headers |-> <<>>, content |-> NoContent]

\* The GET handler answers.
Get ==
    /\ served_response = NoResponse
    /\ served_request.method = "GET"
    /\ \E keys \in KeyOrders :
          served_response' = static_handle_request(fs, Data, keys, served_request)
    /\ UNCHANGED <<fs, served_request, serverVars, reader, wire>>

\* The HEAD handler answers.
Head_ ==
    /\ served_response = NoResponse
    /\ served_request.method = "HEAD"
    /\ \E keys \in KeyOrders :
          served_response' = static_handle_request(fs, Data, keys, served_request)
    /\ UNCHANGED <<fs, served_request, serverVars, reader, wire>>

\* A method without a handler is answered.
Other ==
    /\ served_response = NoResponse
    /\ served_request.method \notin get_handlers
    /\ \E keys \in KeyOrders :
          served_response' = static_handle_request(fs, Data, keys, served_request)
    /\ UNCHANGED <<fs, served_request, serverVars, reader, wire>>

\* =========================================================== main.rs
\* The hosts, in the order main spawns and joins their listeners.
HostOrder == <<"a", "b">>
Hosts == {HostOrder[i] : i \in 1..Len(HostOrder)}

\* Connections that may wait, established, in a listening socket's queue.
MaxBacklog == 1
\* Requests the model lets a peer send on one connection.
MaxCycles == 1
\* Calls of stream.read the model follows within one read_request.
MaxReads == 1

\* Config.max_headers_number and Config.threads_per_connection, at their defaults.
MaxHeadersNumber == 512
ThreadsPerConnection == 4
\* The header capacity of the first parse attempt.
InitialHeadersSize == 16

\* ------------------------------------------------ what a peer may send
\* A request as main.rs looks at it: the method, the Host header, the
\* Content-Length header, the header that asks to close, and what becomes of
\* its path.
HostHeaders == {"absent", "non-utf8", "a", "a:8080"}
ContentLengths == {"absent", "12", "twelve", "4294967295", "4294967296"}
CloseHeaders == {"absent", "Connection: close", "close: close"}
UriStatuses == {"Ok", "OkUnreadable", "NonExistent", "OutOfRange", "Directory"}

DefaultRequest ==
    [method |-> "GET", host |-> "a:8080", content_length |-> "absent",
     close_header |-> "absent", uri_status |-> "Ok"]

AllServerRequests ==
    [method : Methods, host : HostHeaders, content_length : ContentLengths,
     close_header : CloseHeaders, uri_status : UriStatuses]

\* One request for every path through get_res_or_partial and handle_request:
\* a field that is never looked at keeps its default.
ServerRequests ==
    {r \in AllServerRequests :
        /\ r.content_length \notin {"absent", "12"} =>
              r = [DefaultRequest EXCEPT !.content_length = r.content_length]
        /\ r.host \in {"absent", "non-utf8", "a"} =>
              r = [DefaultRequest EXCEPT !.host = r.host,
                                         !.content_length = r.content_length]
        /\ r.method # "GET" => r.uri_status = "Ok"}

\* The bytes read so far: how many header lines they hold, whether the request
\* is complete, whether it is malformed, and the request they spell.
Buffer(lines, complete, bad, req) ==
    [lines |-> lines, complete |-> complete, bad |-> bad, req |-> req]

Buffers ==
    {Buffer(1, FALSE, TRUE, DefaultRequest)}
        \cup {Buffer(k, FALSE, FALSE, DefaultRequest) :
                 k \in {1, InitialHeadersSize + 1, MaxHeadersNumber + 1}}
        \cup {Buffer(k, TRUE, FALSE, DefaultRequest) :
                 k \in {InitialHeadersSize + 1, MaxHeadersNumber + 1}}
        \cup {Buffer(1, TRUE, FALSE, r) : r \in ServerRequests}

\* parser::try_parse (httparse): the failure met first, else the request.
try_parse(headers_size, buffer) ==
    IF buffer.bad THEN "Syntax"
    ELSE IF buffer.lines > headers_size THEN "TooManyHeaders"
    ELSE IF ~buffer.complete THEN "Partial"
    ELSE "Ok"

Min(x, y) == IF x <= y THEN x ELSE y

\* The characters of the Content-Length values of the model.
chars(value) ==
    CASE value = "12" -> <<"1", "2">>
      [] value = "twelve" -> <<"t", "w", "e", "l", "v", "e">>
      [] value = "4294967295" -> <<"4", "2", "9", "4", "9", "6", "7", "2", "9", "5">>
      [] value = "4294967296" -> <<"4", "2", "9", "4", "9", "6", "7", "2", "9", "6">>

DecimalDigits == <<"0", "1", "2", "3", "4", "5", "6", "7", "8", "9">>
is_digit(c) == \E i \in 1..Len(DecimalDigits) : DecimalDigits[i] = c
to_digit(c) == (CHOOSE i \in 1..Len(DecimalDigits) : DecimalDigits[i] = c) - 1

\* u32::MAX, digit by digit.
U32MaxDigits == <<4, 2, 9, 4, 9, 6, 7, 2, 9, 5>>

RECURSIVE strip_zeros(_)
strip_zeros(digits) ==
    IF digits # <<>> /\ Head(digits) = 0 THEN strip_zeros(Tail(digits)) ELSE digits

\* Two numbers of equally many digits: the first is the larger.
RECURSIVE exceeds(_, _)
exceeds(x, y) ==
    IF x = <<>> THEN FALSE
    ELSE IF Head(x) # Head(y) THEN Head(x) > Head(y)
    ELSE exceeds(Tail(x), Tail(y))

\* The number does not fit a u32 (the checked multiply-and-add overflows).
overflows_u32(digits) ==
    LET d == strip_zeros(digits)
    IN  Len(d) > Len(U32MaxDigits) \/ (Len(d) = Len(U32MaxDigits) /\ exceeds(d, U32MaxDigits))

\* u32::from_str: an optional "+", then at least one digit and digits only,
\* and a value up to u32::MAX.
from_str_u32(cs) ==
    LET body == IF cs # <<>> /\ Head(cs) = "+" THEN Tail(cs) ELSE cs
    IN  /\ body # <<>>
        /\ \A i \in 1..Len(body) : is_digit(body[i])
        /\ ~overflows_u32([i \in 1..Len(body) |-> to_digit(body[i])])

\* str::parse::<u32> of the Content-Length value succeeds.
parses_as_u32(value) == from_str_u32(chars(value))

\* get_res_or_partial: "None" for a partial request, the ReadError, "Ok", or
\* "panic" where the Content-Length value is unwrapped without being a number.
RECURSIVE get_res_or_partial_from(_, _, _)
get_res_or_partial_from(headers_size, buffer, max_headers_count) ==
    LET parsed == try_parse(headers_size, buffer)
    IN  CASE parsed = "Partial" -> "None"
          [] parsed = "TooManyHeaders" ->
                IF headers_size < max_headers_count
                THEN get_res_or_partial_from(Min(2 * headers_size, max_headers_count),
                                             buffer, max_headers_count)
                ELSE "TooManyHeaders"
          [] parsed = "Syntax" -> "BadSyntax"
          [] parsed = "Ok" ->
                IF buffer.req.content_length = "absent"
                       \/ parses_as_u32(buffer.req.content_length)
                THEN "Ok"
                ELSE "panic"

get_res_or_partial(buffer, max_headers_count) ==
    get_res_or_partial_from(InitialHeadersSize, buffer, max_headers_count)

\* lib's verify_uri and the status main.rs gives its outcome.
uri_status_code(uri_status) ==
    CASE uri_status \in {"Ok", "OkUnreadable"} -> "Ok"
      [] uri_status = "NonExistent" -> "NotFound"
      [] uri_status = "OutOfRange" -> "Forbidden"
      [] uri_status = "Directory" -> "Moved"

Handled(resp, close) == [panic |-> "", response |-> resp, close |-> close]
Panicked(where) == [panic |-> where, response |-> NoResponse, close |-> FALSE]

\* The methods main.rs serves, and the Allow header of its 405.
main_allowed == "GET"

\* main.rs handle_request: the response and whether to close, or a panic.
main_handle_request(req) ==
    IF req.host = "absent"
    THEN Handled(add_content(new("BadRequest"), TextContent("Host header is required")), FALSE)
    ELSE IF req.host = "non-utf8"
    THEN Handled(add_content(new("BadRequest"), TextContent("Utf-8 error: invalid utf-8 sequence")), FALSE)
    ELSE IF req.host = "a" THEN Panicked("split_once")
    ELSE IF req.method # "GET"
    THEN Handled(set_header(new("MethodNotAllowed"), "Allow", main_allowed), FALSE)
    ELSE LET status == uri_status_code(req.uri_status)
             close == req.close_header = "close: close"
             resp == new(status)
         IN  CASE req.uri_status = "OkUnreadable" -> Panicked("File::open")
               [] req.uri_status = "Ok" ->
                     Handled(set_header(add_content(resp,
                                 [kind |-> "file", src |-> <<"srv", "a", "x.txt">>,
                                  text |-> "", len |-> FileLen]),
                                 "Content-Type", match_file_type(<<"srv", "a", "x.txt">>)),
                             close)
               [] req.uri_status = "NonExistent" ->
                     Handled(add_content(resp,
                                 TextContent("<h1>404</h1><p>Requested page was not found.</p>")),
                             close)
               [] req.uri_status = "OutOfRange" ->
                     Handled(add_content(resp,
                                 TextContent("<h1>404</h1><p>Requested resource cannot be accessed.</p>")),
                             close)
               [] req.uri_status = "Directory" ->
                     Handled(set_header(resp, "Location",
                                 "http://" \o req.host \o "/" \o "index.html"),
                             close)

\* ------------------------------------------------ the process's state

\* pc: where handle_connection is ("read": in stream.read, "write": in
\* write_all); cycle: the read_request calls that have ended; sent: the
\* responses written; response: the response rendered for this cycle; signal:
\* the request of this cycle has the header "Connection: close".
NoConnection ==
    [pc |-> "none", cycle |-> 0, reads |-> 0, buffered |-> FALSE, outcome |-> "none",
     method |-> "", signal |-> FALSE, response |-> NoResponse,
     close_connection |-> FALSE, sent |-> 0]

\* handle_connection entered: the loop is about to call read_request.
NewConnection == [NoConnection EXCEPT !.pc = "read"]

InitServer ==
    /\ proc = "running"
    /\ listener = [h \in Hosts |-> "start"]
    /\ cause = [h \in Hosts |-> ""]
    /\ backlog = [h \in Hosts |-> 0]
    /\ conn = [h \in Hosts |-> NoConnection]

\* A panic unwinds the listener thread: the connection and the listening
\* socket are dropped.
Panic(h, where) ==
    /\ listener' = [listener EXCEPT ![h] = "panicked"]
    /\ cause' = [cause EXCEPT ![h] = where]
    /\ backlog' = [backlog EXCEPT ![h] = 0]
    /\ conn' = [conn EXCEPT ![h] = IF @.pc \in {"read", "write"}
                                    THEN [NoConnection EXCEPT !.pc = "panicked"]
                                    ELSE @]

\* TcpListener::bind(addr).unwrap().
Bind(h) ==
    /\ proc = "running" /\ listener[h] = "start"
    /\ \/ listener' = [listener EXCEPT ![h] = "accept"] /\ UNCHANGED <<cause, backlog, conn>>
       \/ Panic(h, "bind")
    /\ UNCHANGED <<proc, resolverVars, reader, wire>>

\* A peer connects to the host's listening socket.
Connect(h) ==
    /\ proc = "running" /\ listener[h] \in {"accept", "handling"}
    /\ backlog[h] < MaxBacklog
    /\ backlog' = [backlog EXCEPT ![h] = @ + 1]
    /\ UNCHANGED <<proc, listener, cause, conn, resolverVars, reader, wire>>

\* Mutant of AcceptReady: one accept loop serves every host in turn.
AcceptReadyShared(h) ==
    /\ listener[h] = "accept" /\ backlog[h] > 0
    /\ \A other \in Hosts : listener[other] # "handling"

\* The listener thread is in listener.incoming() and a connection waits.
AcceptReady(h) == listener[h] = "accept" /\ backlog[h] > 0

\* incoming() yields a stream and handle_connection is called on this thread;
\* its first statement unwraps peer_addr().
Accept(h) ==
    /\ proc = "running" /\ AcceptReady(h)
    /\ \/ /\ listener' = [listener EXCEPT ![h] = "handling"]
          /\ backlog' = [backlog EXCEPT ![h] = @ - 1]
          /\ conn' = [conn EXCEPT ![h] = NewConnection]
          /\ UNCHANGED cause
       \/ Panic(h, "peer_addr")
    /\ UNCHANGED <<proc, resolverVars, reader, wire>>

\* incoming() yields an error, which stream.unwrap() turns into a panic.
AcceptFails(h) ==
    /\ proc = "running" /\ listener[h] = "accept"
    /\ Panic(h, "accept")
    /\ UNCHANGED <<proc, resolverVars, reader, wire>>

\* handle_connection returns to the accept loop; the stream is dropped.
Return(h, c) ==
    /\ conn' = [conn EXCEPT ![h] =
                   [c EXCEPT !.pc = "returned", !.method = "", !.signal = FALSE,
                             !.response = NoResponse]]
    /\ listener' = [listener EXCEPT ![h] = "accept"]
    /\ UNCHANGED <<cause, backlog>>

Reading(h) == proc = "running" /\ listener[h] = "handling" /\ conn[h].pc = "read"

\* Mutant of connection_header: every response says keep-alive.
connection_header_keep_alive(close_connection) == "keep-alive"

\* The value of the Connection response header.
connection_header(close_connection) == IF close_connection THEN "close" ELSE "keep-alive"

\* Mutant of on_read_error: the Timeout arm leaves close_connection unset.
on_read_error_keep_alive(err) ==
    CASE err = "ConnectionClosed" -> [response |-> NoResponse, close |-> TRUE]
      [] err = "Timeout" -> [response |-> new("RequestTimeout"), close |-> FALSE]
      [] err \in {"BadSyntax", "TooManyHeaders"} ->
            [response |-> new("BadRequest"), close |-> FALSE]

\* The arms of handle_connection for a ReadError: the response, if any, and
\* close_connection.
on_read_error(err) ==
    CASE err = "ConnectionClosed" -> [response |-> NoResponse, close |-> TRUE]
      [] err = "Timeout" -> [response |-> new("RequestTimeout"), close |-> TRUE]
      [] err \in {"BadSyntax", "TooManyHeaders"} ->
            [response |-> new("BadRequest"), close |-> FALSE]

\* The end of a read_request call: the cycle has its outcome, and its
\* response, if any, gets the Connection header and is rendered.
Outcome(c, outcome, method, resp, close) ==
    [c EXCEPT !.cycle = @ + 1, !.reads = 0, !.outcome = outcome,
              !.method = method, !.close_connection = close,
              !.response = IF resp = NoResponse THEN NoResponse
                           ELSE set_header(resp, "Connection", connection_header(close))]

\* stream.read returns Ok(0): ConnectionClosed, no response, the loop ends
\* (after peer_addr().unwrap()).
ReadClosed(h) ==
    /\ Reading(h)
    /\ LET arm == on_read_error("ConnectionClosed")
           c == Outcome(conn[h], "ConnectionClosed", "", arm.response, arm.close)
       IN  IF arm.close /\ arm.response = NoResponse
           THEN Return(h, c) \/ Panic(h, "peer_addr")
           ELSE /\ conn' = [conn EXCEPT ![h] = [c EXCEPT !.pc = "write"]]
                /\ UNCHANGED <<listener, cause, backlog>>
    /\ UNCHANGED <<proc, resolverVars, reader, wire>>

\* stream.read fails with TimedOut or WouldBlock: Timeout, a 408 to write.
ReadTimeout(h) ==
    /\ Reading(h)
    /\ LET arm == on_read_error("Timeout")
       IN  \/ /\ conn' = [conn EXCEPT ![h] =
                              [Outcome(@, "Timeout", "", arm.response, arm.close)
                                  EXCEPT !.pc = "write"]]
              /\ UNCHANGED <<listener, cause, backlog>>
           \/ Panic(h, "peer_addr")
    /\ UNCHANGED <<proc, resolverVars, reader, wire>>

\* stream.read fails with another error: it is printed and read is called again.
ReadError(h) ==
    /\ Reading(h) /\ conn[h].reads < MaxReads
    /\ conn' = [conn EXCEPT ![h].reads = @ + 1]
    /\ UNCHANGED <<proc, listener, cause, backlog, resolverVars, reader, wire>>

\* stream.read returns bytes; the buffer now reads as b.
ReadData(h, b) ==
    /\ Reading(h) /\ conn[h].cycle < MaxCycles
    /\ LET res == get_res_or_partial(b, MaxHeadersNumber)
           handled == main_handle_request(b.req)
       IN  CASE res = "None" ->
                  /\ conn[h].reads < MaxReads
                  /\ conn' = [conn EXCEPT ![h].reads = @ + 1, ![h].buffered = TRUE]
                  /\ UNCHANGED <<listener, cause, backlog>>
             [] res = "panic" -> Panic(h, "Content-Length")
             [] res \in {"BadSyntax", "TooManyHeaders"} ->
                  /\ conn' = [conn EXCEPT ![h] =
                                 [Outcome(@, res, "", on_read_error(res).response,
                                          on_read_error(res).close)
                                     EXCEPT !.pc = "write", !.buffered = TRUE]]
                  /\ UNCHANGED <<listener, cause, backlog>>
             [] res = "Ok" /\ handled.panic # "" -> Panic(h, handled.panic)
             [] res = "Ok" /\ handled.panic = "" ->
                  /\ conn' = [conn EXCEPT ![h] =
                                 [Outcome(@, "Ok", b.req.method, handled.response, handled.close)
                                     EXCEPT !.pc = "write", !.buffered = TRUE,
                                            !.signal = b.req.close_header = "Connection: close"]]
                  /\ UNCHANGED <<listener, cause, backlog>>
    /\ UNCHANGED <<proc, resolverVars, reader, wire>>

\* write_all sends the rendered response; then the loop ends if
\* close_connection is set (after peer_addr().unwrap()) and calls read_request
\* again if not.
Write(h) ==
    /\ proc = "running" /\ listener[h] = "handling" /\ conn[h].pc = "write"
    /\ LET c == conn[h]
       IN  \/ /\ c.close_connection
              /\ \/ Return(h, [c EXCEPT !.sent = @ + 1])
                 \/ Panic(h, "peer_addr")
           \/ /\ ~c.close_connection
              /\ conn' = [conn EXCEPT ![h] =
                             [NoConnection EXCEPT !.pc = "read", !.cycle = c.cycle,
                                                  !.outcome = c.outcome,
                                                  !.sent = c.sent + 1]]
              /\ UNCHANGED <<listener, cause, backlog>>
    /\ UNCHANGED <<proc, resolverVars, reader, wire>>

\* write_all fails and the closure given to unwrap_or_else panics.
WriteFails(h) ==
    /\ proc = "running" /\ listener[h] = "handling" /\ conn[h].pc = "write"
    /\ Panic(h, "write_all")
    /\ UNCHANGED <<proc, resolverVars, reader, wire>>

\* main is in handlers[0].join().unwrap(): the panic of that thread is main's.
MainJoinPanics ==
    /\ proc = "running" /\ listener[HostOrder[1]] = "panicked"
    /\ proc' = "panicked"
    /\ UNCHANGED <<listener, cause, backlog, conn, resolverVars, reader, wire>>

\* SIGINT or SIGTERM: no handler is installed, the process ends at once.
Terminate ==
    /\ proc = "running"
    /\ proc' = "killed"
    /\ UNCHANGED <<listener, cause, backlog, conn, resolverVars, reader, wire>>

Next ==
    \/ \E h \in Hosts : Bind(h)
    \/ \E h \in Hosts : Connect(h)
    \/ \E h \in Hosts : Accept(h)
    \/ \E h \in Hosts : AcceptFails(h)
    \/ \E h \in Hosts : ReadClosed(h)
    \/ \E h \in Hosts : ReadTimeout(h)
    \/ \E h \in Hosts : ReadError(h)
    \/ \E h \in Hosts, b \in Buffers : ReadData(h, b)
    \/ \E h \in Hosts : Write(h)
    \/ \E h \in Hosts : WriteFails(h)
    \/ MainJoinPanics
    \/ Terminate

\* ========================================================= reader.rs
\* The largest max_headers_number the model configures.
MaxConfigured == 40
\* The most header lines the model lets a request have.
MaxLines == 40
\* The most reads the peer's request is spread over.
MaxChunks == 2
\* How far the model follows the time, in seconds since read_request began.
MaxClock == 5
\* Config.keep_alive at its default, in seconds.
KeepAlive == 2

Max(x, y) == IF x >= y THEN x ELSE y

\* What the peer sends during one call: lines header lines (the last bytes of
\* the request come with the last chunk), malformed or not.
PeerRequests ==
    {[lines |-> k, bad |-> FALSE, content_length |-> "absent"] : k \in 0..MaxLines}
        \cup {[lines |-> 1, bad |-> FALSE, content_length |-> c] : c \in ContentLengths}
        \cup {[lines |-> 1, bad |-> TRUE, content_length |-> "absent"]}

\* pc: "idle" outside a call, "read" in stream.read, "parse" in the loop of
\* try_read, "log" at the eprintln for a failed read, "done" once read_request
\* has returned result.  waited is the time spent in the present stream.read,
\* clock the time since the call began; largest is the largest capacity given
\* to try_parse; broken: the socket is in an error state, every read of it
\* fails at once with an error that is neither TimedOut nor WouldBlock.
NoRead ==
    [pc |-> "idle", max_headers_count |-> 0,
     request |-> [lines |-> 0, bad |-> FALSE, content_length |-> "absent"],
     chunks_left |-> 0, received |-> 0, headers_size |-> 0, largest |-> 0,
     result |-> "none", clock |-> 0, waited |-> 0, broken |-> FALSE]

\* read_request has set the read timeout and calls stream.read.
StartRead(max, request, chunks) ==
    [NoRead EXCEPT !.pc = "read", !.max_headers_count = max, !.request = request,
                   !.chunks_left = chunks]

\* The bytes in the buffer of the call.
ReaderBuffer(r) ==
    Buffer(r.request.lines, r.chunks_left = 0, r.request.bad,
           [DefaultRequest EXCEPT !.content_length = r.request.content_length])

\* reader::get_content_length: the header must be a decimal u32 when present.
get_content_length(req) ==
    IF req.content_length = "absent" \/ parses_as_u32(req.content_length)
    THEN "Ok" ELSE "BadSyntax"

\* One second passes while stream.read blocks; the socket's timeout has not
\* run out for this read.
ReaderTick ==
    /\ reader.pc = "read" /\ ~reader.broken
    /\ reader.waited < KeepAlive /\ reader.clock < MaxClock
    /\ reader' = [reader EXCEPT !.clock = @ + 1, !.waited = @ + 1]
    /\ UNCHANGED <<resolverVars, serverVars, wire>>

\* stream.read returns Ok(bytes_read): the bytes join the buffer and try_read
\* starts with a capacity of 16.
ReaderData ==
    /\ reader.pc = "read" /\ ~reader.broken
    /\ reader.waited < KeepAlive /\ reader.chunks_left > 0
    /\ reader' = [reader EXCEPT !.pc = "parse", !.chunks_left = @ - 1,
                                !.received = @ + 1, !.headers_size = InitialHeadersSize]
    /\ UNCHANGED <<resolverVars, serverVars, wire>>

\* stream.read fails with TimedOut or WouldBlock: nothing arrived for
\* keep_alive seconds since this read was called.
ReaderTimedOut ==
    /\ reader.pc = "read" /\ ~reader.broken /\ reader.waited = KeepAlive
    /\ reader' = [reader EXCEPT !.pc = "done", !.result = "Timeout"]
    /\ UNCHANGED <<resolverVars, serverVars, wire>>

\* stream.read returns Ok(0): the peer has closed.
ReaderEof ==
    /\ reader.pc = "read" /\ ~reader.broken /\ reader.waited < KeepAlive
    /\ reader' = [reader EXCEPT !.pc = "done", !.result = "ConnectionClosed"]
    /\ UNCHANGED <<resolverVars, serverVars, wire>>

\* The socket gets into an error state while read_request waits for bytes.
SocketBreaks ==
    /\ reader.pc = "read" /\ ~reader.broken
    /\ reader' = [reader EXCEPT !.broken = TRUE]
    /\ UNCHANGED <<resolverVars, serverVars, wire>>

\* stream.read fails with an error that is neither TimedOut nor WouldBlock:
\* no break, the error is to be printed.
ReaderFails ==
    /\ reader.pc = "read" /\ reader.broken
    /\ reader' = [reader EXCEPT !.pc = "log"]
    /\ UNCHANGED <<resolverVars, serverVars, wire>>

\* eprintln!("err: ..") and the loop calls stream.read again.
ReaderLogs ==
    /\ reader.pc = "log"
    /\ reader' = [reader EXCEPT !.pc = "read", !.waited = 0]
    /\ UNCHANGED <<resolverVars, serverVars, wire>>

\* One turn of the loop of try_read.
ReaderTryParse ==
    /\ reader.pc = "parse"
    /\ LET parsed == try_parse(reader.headers_size, ReaderBuffer(reader))
           tried == [reader EXCEPT !.largest = Max(@, reader.headers_size)]
       IN  reader' =
              CASE parsed = "Partial" -> [tried EXCEPT !.pc = "read", !.waited = 0]
                [] parsed = "TooManyHeaders" ->
                      IF reader.headers_size < reader.max_headers_count
                      THEN [tried EXCEPT !.headers_size =
                                Min(2 * reader.headers_size, reader.max_headers_count)]
                      ELSE [tried EXCEPT !.pc = "done", !.result = "TooManyHeaders"]
                [] parsed = "Syntax" -> [tried EXCEPT !.pc = "done", !.result = "BadSyntax"]
                [] parsed = "Ok" ->
                      [tried EXCEPT !.pc = "done",
                                    !.result = get_content_length(ReaderBuffer(reader).req)]
    /\ UNCHANGED <<resolverVars, serverVars, wire>>

\* ==================================================== Response::render
\* The filesystem the process and the renderer find.
PlainFs == MakeFs(<<"absent">>, "absent", "absent", "none")

\* The responses given to render: those the handlers of main.rs build, with
\* their Connection header, and those of the static server for a few requests.
RenderedResponses ==
    {set_header(x.response, "Connection", connection_header(x.close)) :
        x \in {y \in {main_handle_request(r) : r \in ServerRequests} : y.panic = ""}}
    \cup {set_header(on_read_error(e).response, "Connection",
                     connection_header(on_read_error(e).close)) :
             e \in {"Timeout", "BadSyntax"}}
    \cup {static_handle_request(PlainFs, Data, keys, r) :
             keys \in KeyOrders,
             r \in [method : Methods,
                    path : {<<"", "">>, <<"", "x.txt">>, <<"", "sub">>, <<"", "out">>,
                            <<"", "..">>, <<"", "x.txt", "sub">>}]}

NoWire == [response |-> NoResponse, rendered |-> FALSE, bytes |-> ""]

\* response.render(): the bytes for one order of the headers.
Render ==
    /\ wire.response # NoResponse /\ ~wire.rendered
    /\ \E order \in Orders(DOMAIN wire.response.headers) :
          wire' = [wire EXCEPT !.rendered = TRUE, !.bytes = render(wire.response, order)]
    /\ UNCHANGED <<resolverVars, serverVars, reader>>

\* The process of main.rs; the resolver's variables stay as they are.
Init ==
    /\ InitServer
    /\ fs = PlainFs
    /\ served_request = [method |-> "GET", path |-> <<"", "">>]
    /\ served_response = NoResponse
    /\ reader = NoRead
    /\ wire = NoWire

Spec == Init /\ [][Next]_vars

\* The static server answering one request; the process does not move.
InitResolver ==
    /\ fs \in Filesystems
    /\ served_request \in Requests
    /\ served_response = NoResponse
    /\ InitServer
    /\ reader = NoRead
    /\ wire = NoWire

NextResolver == Get \/ Head_ \/ Other

SpecResolver == InitResolver /\ [][NextResolver]_vars

\* One call of reader::read_request; nothing else moves.
InitReader ==
    /\ reader \in {StartRead(max, request, chunks) :
                      max \in 1..MaxConfigured, request \in PeerRequests,
                      chunks \in 1..MaxChunks}
    /\ InitServer
    /\ fs = PlainFs
    /\ served_request = [method |-> "GET", path |-> <<"", "">>]
    /\ served_response = NoResponse
    /\ wire = NoWire

NextReader ==
    \/ ReaderTick \/ ReaderData \/ ReaderTimedOut \/ ReaderEof \/ ReaderTryParse
    \/ SocketBreaks \/ ReaderFails \/ ReaderLogs

SpecReader == InitReader /\ [][NextReader]_vars

\* The thread of read_request keeps running and time keeps passing; the peer
\* and the socket owe nothing.
FairReader ==
    /\ WF_vars(ReaderTick) /\ WF_vars(ReaderTimedOut) /\ WF_vars(ReaderTryParse)
    /\ WF_vars(ReaderFails) /\ WF_vars(ReaderLogs)

SpecReaderFair == SpecReader /\ FairReader

\* One call of Response::render; nothing else moves.
InitRender ==
    /\ wire \in {[NoWire EXCEPT !.response = r] : r \in RenderedResponses}
    /\ InitServer
    /\ fs = PlainFs
    /\ served_request = [method |-> "GET", path |-> <<"", "">>]
    /\ served_response = NoResponse
    /\ reader = NoRead

NextRender == Render

SpecRender == InitRender /\ [][NextRender]_vars

\* ------------------------------------------------------- C1, C2
\* Where the joined path of the served request really leads.
Target == open_target(fs, get_relative_resource_path(ContentDir, served_request))

Served == served_response # NoResponse /\ served_request.method \in get_handlers

\* The canonicalized join exists and lies outside the content directory.
OutOfRange == Target.ok /\ ~IsPrefix(ContentDir, Target.path)

\* The 403 page that load_error picks cannot be loaded.
ForbiddenPageBroken ==
    LET page == get_error_page(fs, "Forbidden", Data)
    IN  /\ page # <<>>
        /\ \/ ~fs[open_target(fs, page[1]).path].perm
           \/ fs[open_target(fs, page[1]).path].kind # "file"

C2_NoBodyFromOutside ==
    (served_response # NoResponse /\ served_response.content.kind = "file") =>
        IsPrefix(ContentDir, served_response.content.src)

\* C2 amended: a 200 response carries only a file of the host's content
\* directory; the body of any other response is a text or the file that
\* <code>.html of the host's content directory or of the content root leads to.
C2_BodyFromSandboxOrErrorPage ==
    (served_response # NoResponse /\ served_response.content.kind = "file") =>
        IF served_response.status = "Ok"
        THEN IsPrefix(ContentDir, served_response.content.src)
        ELSE /\ code(served_response.status) \in ErrorCodes
             /\ \E d \in {ContentDir, ConfigDirectory} :
                   LET page == Append(d, ErrorPageName(code(served_response.status)))
                   IN  /\ exists(fs, page)
                       /\ served_response.content.src = open_target(fs, page).path

\* C2 witness: a 404 whose body is 404.html of the content root, and a state
\* where a file of the content directory is served.
C2_Witness ==
    /\ served_response # NoResponse
    /\ served_response.status = "NotFound"
    /\ served_response.content.kind = "file"
    /\ served_response.content.src = <<"srv", "404.html">>

\* ------------------------------------------------------- C3 .. C10
\* C3: a read_request that ends in Timeout is answered by exactly one
\* response, a 408 with "Connection: close"; then the handler closes the
\* connection and returns, and it never reads from the connection again.
C3_TimeoutOne408ThenClose ==
    \A h \in Hosts :
        conn[h].outcome = "Timeout" =>
            /\ conn[h].pc \in {"write", "returned"}
            /\ conn[h].close_connection
            /\ conn[h].pc = "write" =>
                  /\ conn[h].response.status = "RequestTimeout"
                  /\ conn[h].response.headers["Connection"] = "close"
                  /\ conn[h].sent = conn[h].cycle - 1
            /\ conn[h].pc = "returned" => conn[h].sent = conn[h].cycle

\* C3 witness: no byte arrived, the read timed out, one response was written
\* and the handler has returned.
C3_Witness ==
    \E h \in Hosts :
        /\ conn[h].pc = "returned" /\ conn[h].outcome = "Timeout"
        /\ ~conn[h].buffered /\ conn[h].cycle = 1 /\ conn[h].sent = 1

\* C4 as stated: once the termination signal is delivered the process exits
\* only after every listener has returned.
C4_ExitAfterListenersReturn ==
    proc = "killed" => \A h \in Hosts : listener[h] = "returned"

\* C5 as stated: no request/response cycle that has begun is cut off by the
\* shutdown: when the process ends on the signal, no response is left unwritten.
C5_ShutdownAbortsNoCycle ==
    proc = "killed" => \A h \in Hosts : conn[h].pc # "write"

\* The listener, queue and connection of a host.
HostState(h) == <<listener[h], cause[h], backlog[h], conn[h]>>

\* C6: a step of one host leaves the other hosts' listeners, queues and
\* connections as they are, and while the process runs a listener that waits
\* in accept takes a waiting connection whatever the other hosts' handlers do.
C6_HostsDoNotInterfere ==
    /\ [][\A a \in Hosts : HostState(a)' # HostState(a) =>
              /\ proc' = proc
              /\ \A b \in Hosts \ {a} : HostState(b)' = HostState(b)]_vars
    /\ [](\A b \in Hosts :
              (proc = "running" /\ listener[b] = "accept" /\ backlog[b] > 0)
                  => ENABLED Accept(b))

\* C6 witness: host a's handler is blocked in read and host b's listener has
\* dispatched a connection meanwhile.
C6_Witness ==
    /\ proc = "running"
    /\ conn["a"].pc = "read" /\ conn["a"].cycle = 1
    /\ conn["b"].pc = "write"

\* The connections of a host that are being handled.
InFlight(h) == IF conn[h].pc \in {"read", "write"} THEN 1 ELSE 0

\* C7 as stated: at most threads_per_connection connections of a host are in
\* flight, and with fewer in flight a waiting connection is dispatched without
\* waiting for another one of the host to finish.
C7_PoolBoundsAndDispatches ==
    \A h \in Hosts :
        /\ InFlight(h) <= ThreadsPerConnection
        /\ (/\ proc = "running" /\ listener[h] \in {"accept", "handling"}
            /\ InFlight(h) < ThreadsPerConnection /\ backlog[h] > 0)
               => ENABLED Accept(h)

\* The panics that the events C8 names end in: a malformed Content-Length, a
\* Host header without a port, a failed write.
ConnectionPanics == {"Content-Length", "split_once", "write_all"}

\* C8 as stated: nothing that happens on one connection ends the host's
\* listener or the process.
C8_ConnectionFailuresConfined ==
    \A h \in Hosts : cause[h] \notin ConnectionPanics

\* C9 as stated: after BadSyntax or TooManyHeaders the handler writes a 400
\* and closes; it does not read another request.
C9_BadRequestCloses ==
    \A h \in Hosts :
        conn[h].outcome \in {"BadSyntax", "TooManyHeaders"} =>
            /\ conn[h].pc # "read"
            /\ conn[h].pc = "write" =>
                  /\ conn[h].response.status = "BadRequest"
                  /\ conn[h].close_connection

\* C10 as stated: a parsed request with a method other than GET and HEAD gets
\* a 405 with "Allow: GET, HEAD" and is not closed for it; GET and HEAD never
\* get a 405.
C10_OtherMethods405 ==
    \A h \in Hosts :
        (conn[h].pc = "write" /\ conn[h].outcome = "Ok") =>
            IF conn[h].method \in {"GET", "HEAD"}
            THEN conn[h].response.status # "MethodNotAllowed"
            ELSE /\ conn[h].response.status = "MethodNotAllowed"
                 /\ "Allow" \in DOMAIN conn[h].response.headers
                 /\ conn[h].response.headers["Allow"] = "GET, HEAD"
                 /\ ~conn[h].close_connection

\* ------------------------------------------------------- C11, C12
\* The served path resolves to a directory inside the content directory.
ResolvesToDirectory ==
    Target.ok /\ IsPrefix(ContentDir, Target.path) /\ fs[Target.path].kind = "dir"

\* The URL C11 gives for the directory at the relative path rel.
IndexUrl(rel) ==
    "http://" \o Data.hostname \o ":" \o ToString(Port) \o "/" \o to_str(rel) \o "/index.html"

\* C11 as stated: a GET for a path that resolves to a directory inside the
\* content directory is answered 301, and for a directory below the content
\* directory the Location is http://<host>:<port>/<relative path>/index.html.
C11_DirectoryRedirectLocation ==
    (served_response # NoResponse /\ served_request.method = "GET" /\ ResolvesToDirectory) =>
        /\ served_response.status = "Moved"
        /\ "Location" \in DOMAIN served_response.headers
        /\ Target.path # ContentDir =>
              served_response.headers["Location"]
                  = IndexUrl(strip_prefix(Target.path, ContentDir))

\* What GET answers for the path of the served request on this filesystem.
GetResponse ==
    handle_get_request(fs, Data, [served_request EXCEPT !.method = "GET"])

\* C12: the response to a HEAD has the status and the headers of the response
\* to a GET for the same path on the same filesystem, Content-Length of the
\* GET body included, and it has no body.
C12_HeadMirrorsGet ==
    (served_response # NoResponse /\ served_request.method = "HEAD") =>
        /\ served_response.status = GetResponse.status
        /\ served_response.headers = GetResponse.headers
        /\ served_response.content = NoContent

\* C12 witness: a HEAD for a file is answered 200 with the Content-Length of
\* the file and without a body.
C12_Witness ==
    /\ served_request = [method |-> "HEAD", path |-> <<"", "sub", "x.txt">>]
    /\ served_response.status = "Ok"
    /\ GetResponse.content.kind = "file"
    /\ served_response.headers["Content-Length"] = ToString(FileLen)
    /\ served_response.content = NoContent

\* ------------------------------------------------------- C13
\* The call has returned for a complete, well-formed request.
ParsedOrTooMany == reader.pc = "done" /\ reader.result \in {"Ok", "TooManyHeaders"}

\* C13 as stated: whatever the configured maximum M, a complete well-formed
\* request with k headers is parsed if k <= M and ends in TooManyHeaders if
\* k > M, and no parse attempt is given a capacity above M.
C13_GrowthWithinMaximum ==
    /\ reader.largest <= reader.max_headers_count
    /\ ParsedOrTooMany =>
          (reader.result = "Ok") = (reader.request.lines <= reader.max_headers_count)

\* ------------------------------------------------------- C14, C15
\* The error page C14 gives a status: of the host's content directory first,
\* of the content root second, none when neither exists.
PageFor(status) ==
    LET local == Append(ContentDir, ErrorPageName(code(status)))
        global == Append(ConfigDirectory, ErrorPageName(code(status)))
    IN  IF exists(fs, local) THEN <<local>>
        ELSE IF exists(fs, global) THEN <<global>>
        ELSE <<>>

\* C14 as stated, for the 4xx and 5xx responses to methods other than HEAD
\* (a HEAD has no body): the body is the error page of the status, the host's
\* before the content root's, and a non-empty text when there is no such page.
C14_ErrorBodyPrecedence ==
    (/\ served_response # NoResponse /\ served_request.method # "HEAD"
     /\ served_response.status \notin {"Ok", "Moved"}) =>
        IF PageFor(served_response.status) # <<>>
        THEN /\ served_response.content.kind = "file"
             /\ served_response.content.src
                   = open_target(fs, PageFor(served_response.status)[1]).path
        ELSE /\ served_response.content.kind = "text"
             /\ served_response.content.len > 0

\* The outcome of canonicalizing the joined path of the served request.
Canon == canonicalize(fs, get_relative_resource_path(ContentDir, served_request))

\* The served path resolves to something inside the content directory that is
\* no directory and cannot be opened and read.
Unloadable ==
    /\ Canon.ok /\ IsPrefix(ContentDir, Canon.path)
    /\ fs[Canon.path].kind # "dir" /\ ~fs[Canon.path].perm

\* C15 as stated: a GET whose canonicalization fails with anything but
\* not-found, permission denied included, or whose file cannot be opened, is
\* answered 500; a 404 comes only from a not-found canonicalization.
C15_IoFailureIs500 ==
    (served_response # NoResponse /\ served_request.method = "GET") =>
        /\ (~Canon.ok /\ Canon.err # "NotFound") =>
              served_response.status = "InternalServerError"
        /\ Unloadable => served_response.status = "InternalServerError"
        /\ served_response.status = "NotFound" => (~Canon.ok /\ Canon.err = "NotFound")

\* ------------------------------------------------------- C16
\* C16: a response that has been written carries a Connection header, which
\* is "close" exactly when the handler then returns and "keep-alive" exactly
\* when it goes on to read the next request of the connection.
C16_ConnectionHeaderTellsClose ==
    [][\A h \in Hosts :
          (conn[h].pc = "write" /\ conn'[h].pc \in {"read", "returned"}) =>
              /\ "Connection" \in DOMAIN conn[h].response.headers
              /\ conn[h].response.headers["Connection"] \in {"close", "keep-alive"}
              /\ (conn[h].response.headers["Connection"] = "close")
                    = (conn'[h].pc = "returned")]_vars

\* C16 witness: a response has been written and the handler reads again.
C16_Witness ==
    \E h \in Hosts : conn[h].pc = "read" /\ conn[h].sent = 1 /\ conn[h].outcome = "Ok"

\* ------------------------------------------------------- C17
\* The header lines in the given order, each followed by CRLF.
RECURSIVE HeaderLines(_, _)
HeaderLines(resp, order) ==
    IF order = <<>> THEN ""
    ELSE Head(order) \o ": " \o resp.headers[Head(order)] \o "\r\n"
             \o HeaderLines(resp, Tail(order))

\* The bytes C17 describes: status line, CRLF, the header lines, an empty
\* line, the body if there is one.
Rendering(resp, order) ==
    "HTTP/1.1 " \o ToString(code(resp.status)) \o "\r\n"
        \o HeaderLines(resp, order) \o "\r\n"
        \o (IF resp.content.kind = "none" THEN "" ELSE content_bytes(resp.content))

\* C17 as stated: with or without a body, the rendered bytes are the status
\* line, the headers in some order, an empty line and then the body if any.
C17_RenderedBytes ==
    wire.rendered =>
        \E order \in Orders(DOMAIN wire.response.headers) :
            wire.bytes = Rendering(wire.response, order)

\* ------------------------------------------------------- C18
\* C18 as stated: a failed accept does not end the host's listener, which
\* stays in its accept loop.
C18_AcceptFailureKeepsListener ==
    \A h \in Hosts : cause[h] = "accept" => listener[h] = "accept"

\* ------------------------------------------------------- C19
\* C19 as stated: the read deadline is keep_alive seconds after read_request
\* began and later reads do not move it: no call is still reading, and none
\* ends in Timeout, later than that.
C19_DeadlineNotRefreshed ==
    /\ reader.pc \in {"read", "parse"} => reader.clock <= KeepAlive
    /\ reader.result = "Timeout" => reader.clock <= KeepAlive

\* ------------------------------------------------------- C20
\* The panics that strike before read_request has returned, or once the
\* response is written.
OutsideCycle == {"Content-Length", "peer_addr"}

\* C20 as stated: a read_request that has returned a request or an error other
\* than ConnectionClosed is followed by the writing of one response, after
\* ConnectionClosed nothing is written and the handler returns; a request is
\* read only when the responses to all earlier ones are written, and nothing is
\* written once the handler has returned.
C20_OneResponsePerCycle ==
    [][\A h \in Hosts :
          /\ (conn[h].pc = "read" /\ conn'[h].pc \notin {"read", "write", "returned"}) =>
                cause'[h] \in OutsideCycle
          /\ (conn[h].pc = "read" /\ conn'[h].pc = "write") =>
                /\ conn'[h].outcome \in {"Ok", "Timeout", "BadSyntax", "TooManyHeaders"}
                /\ conn'[h].sent = conn[h].sent
          /\ (conn[h].pc = "read" /\ conn'[h].pc = "returned") =>
                /\ conn'[h].outcome = "ConnectionClosed"
                /\ conn'[h].sent = conn[h].sent
          /\ (conn[h].pc = "write" /\ conn'[h] # conn[h]) =>
                \/ /\ conn'[h].sent = conn[h].sent + 1
                   /\ conn'[h].pc \in {"read", "returned"}
                \/ cause'[h] \in OutsideCycle
          /\ conn'[h].cycle = conn[h].cycle + 1 =>
                conn[h].pc = "read" /\ conn[h].sent = conn[h].cycle
          /\ (conn[h].pc = "returned" /\ conn'[h].pc = "returned") =>
                conn'[h].sent = conn[h].sent]_vars

\* ------------------------------------------------------- C21
\* C21 as stated: after a parsed request the handler closes the connection
\* once the response is sent exactly when the request had the header
\* "Connection: close"; without it the next request is read.
C21_CloseIffCloseSignal ==
    \A h \in Hosts :
        (conn[h].pc = "write" /\ conn[h].outcome = "Ok") =>
            conn[h].close_connection = conn[h].signal

\* ------------------------------------------------------- C22
\* The value is the decimal text of a non-negative integer.
IsDecimal(value) ==
    /\ chars(value) # <<>>
    /\ \A i \in 1..Len(chars(value)) : is_digit(chars(value)[i])

\* C22 as stated: the read of a complete, well-formed request with a
\* Content-Length header ends in Ok when the value is the decimal text of a
\* non-negative integer of whatever size, and in BadSyntax when it is not.
C22_ContentLengthAnyMagnitude ==
    (/\ reader.pc = "done" /\ reader.result \in {"Ok", "BadSyntax"}
     /\ ~reader.request.bad /\ reader.request.content_length # "absent") =>
        (reader.result = "Ok") = IsDecimal(reader.request.content_length)

\* ------------------------------------------------------- C23
\* C23 as stated: every call of read_request returns, whatever the socket
\* does, a socket whose reads keep failing included.
C23_ReadRequestReturns == <>(reader.pc = "done")

\* ------------------------------------------------------- C24
\* A file outside the content directory that is no error page.
OutsideFile == <<"etc", "x.txt">>

\* The filesystem without that file: it differs from f only outside the
\* content directory.
WithoutOutsideFile(f) == [p \in DOMAIN f \ {OutsideFile} |-> f[p]]

\* The two filesystems have the same error pages.
SameErrorPages(f, g) ==
    \A d \in {ContentDir, ConfigDirectory}, c \in ErrorCodes :
        open_target(f, Append(d, ErrorPageName(c))) = open_target(g, Append(d, ErrorPageName(c)))

\* C24 as stated: on a filesystem that differs only in which files exist
\* outside the content directory, the request gets the same status and the
\* same body.
C24_IndependentOfOutside ==
    (Served /\ OutsideFile \in DOMAIN fs /\ SameErrorPages(fs, WithoutOutsideFile(fs))) =>
        \A keys \in KeyOrders :
            LET other == static_handle_request(WithoutOutsideFile(fs), Data, keys,
                                               served_request)
            IN  /\ other.status = served_response.status
                /\ other.content = served_response.content

====
